---- MODULE Spec2Model ----
(***************************************************************************)
(* A model of audio_manager.py: one DialogSession with its controller      *)
(* coroutine (start), the capture coroutine (process_microphone_input),    *)
(* the receive coroutine (receive_loop / handle_server_response), the      *)
(* playback thread (_audio_player_thread) and the SIGINT handler           *)
(* (_keyboard_signal).  Coroutines of the one event loop interleave only   *)
(* at their await points; the playback thread and the signal handler       *)
(* interleave with every step.                                             *)
(***************************************************************************)
EXTENDS Integers, Sequences, FiniteSets, TLC

\* ------------------------------------------------------------- bounds
\* Ack frames dispatched in DispatchSpec.
MaxFeeds == 4
\* Frames the transport delivers before the finish-session handshake.
MaxFrames == 3

\* Longest run of bytes put in front of a marker in DetectSpec.
MaxPad == 58

\* ---------------------------------------------------- program constants
MIN_PAGES == 3
MAX_PAGES == 8
MAX_BUFFER == 50000
HEADER_LEN == 4
OPUS_WINDOW == 64
EVENT_FLUSH == 450
EVENT_SESSION_FINISHED == 152
EVENT_SESSION_FAILED == 153

\* b'OggS', b'\x1A\x45\xDF\xA3', b'OpusHead' as byte sequences
OggS == <<79, 103, 103, 83>>
EBML == <<26, 69, 223, 163>>
OpusHead == <<79, 112, 117, 115, 72, 101, 97, 100>>

VARIABLES
    tts_configured,      \* 'tts' in config.start_session_req
    ctl,                 \* position of __init__ / start()
    mic,                 \* position of process_microphone_input
    rcv,                 \* position of receive_loop
    ply,                 \* position of _audio_player_thread
    is_running, is_session_finished, is_recording, is_playing,
    audio_queue,         \* queue.Queue of chunks, head first
    ogg_buffer, ogg_pages_count,
    response,            \* receive_loop's current response
    audio_format,        \* handle_server_response's local audio_format
    audio_data,          \* handle_server_response's local audio_data
    player_audio_data,   \* _audio_player_thread's local audio_data
    output_open,         \* the output stream is open (not yet cleaned up)
    next_id,             \* identity of the next object put on audio_queue
    written,             \* history: ids of the chunks output_stream.write accepted, in order
    flushed,             \* history: ids removed by the event-450 drain
    late_write,          \* history: output_stream.write was called after cleanup
    sent,                \* history: microphone chunks task_request completed, modulo 2
    dispatched,          \* history: frames handed to handle_server_response
    error_seen,          \* history: a SERVER_ERROR frame was dispatched
    stopped,             \* history: _keyboard_signal has run
    since_stop,          \* history: chunks sent, frames dispatched and chunks written
                         \* since _keyboard_signal last cleared a flag (2: two or more)
    calls,               \* history: start()'s shutdown calls, in order
    cleanup_calls,       \* history: number of AudioDeviceManager.cleanup() calls
    feed,                \* position of _process_ogg_stream
    attempt_pages,       \* _process_ogg_stream's loop variable (0 outside the loop)
    ogg_page,            \* _process_ogg_stream's argument
    pcm_data,            \* the bytes _process_ogg_stream returns
    before,              \* history: the accumulator when the last feed was called
    appended,            \* history: pages appended since the last reset
    decoded,             \* history: a decode attempt of the last feed succeeded
    loss_logged,         \* history: the last feed printed the buffer-reset line
    flush_obs            \* history of the event-450 handling: the id the player
                         \* held at the first test of the current drain (0: none)
                         \* and, for
                         \* the last handling that returned, next_id at its
                         \* return (0: none yet), the id the player held when its
                         \* drain began, and the ids enqueued before it that were
                         \* written after the return

vars == <<tts_configured, ctl, mic, rcv, ply, is_running, is_session_finished,
          is_recording, is_playing, audio_queue, ogg_buffer, ogg_pages_count,
          response, audio_format, audio_data, player_audio_data, output_open,
          next_id, written, flushed, late_write, sent, dispatched,
          error_seen, stopped, since_stop, calls, cleanup_calls,
          feed, attempt_pages, ogg_page, pcm_data, before, appended, decoded,
          loss_logged, flush_obs>>

flags == <<is_running, is_session_finished, is_recording, is_playing>>
decoder == <<ogg_buffer, ogg_pages_count>>
locals == <<response, audio_format, audio_data>>
tasks == <<mic, rcv>>
hist_stop == <<stopped, since_stop>>
hist_ctl == <<calls, cleanup_calls>>
feeding == <<feed, attempt_pages, ogg_page, pcm_data, before, appended,
             decoded, loss_logged>>

\* ------------------------------------------------------------ helpers
Min(a, b) == IF a < b THEN a ELSE b

Take(s, n) == SubSeq(s, 1, Min(Len(s), n))

Contains(pat, s) ==
    \E i \in 1..(Len(s) - Len(pat) + 1) : SubSeq(s, i, i + Len(pat) - 1) = pat

NoResponse == [message_type |-> "NONE", event |-> 0, payload_msg |-> <<>>]
NoChunk == [id |-> 0, data |-> <<>>]
NoFeed == [buf |-> <<>>, cnt |-> 0]
NoFlush == [begun |-> FALSE, begin_held |-> 0, mark |-> 0, held |-> 0, stale |-> {}]
Chunk(n, d) == [id |-> n, data |-> d]

\* The counters of since_stop: nothing yet, and one more of `what` once the
\* stop signal has been given.
NoneSince == [sent |-> 0, dispatched |-> 0, written |-> 0]
Since(what) ==
    IF stopped /\ since_stop[what] < 2
    THEN [since_stop EXCEPT ![what] = @ + 1]
    ELSE since_stop

\* ----------------------------------------------------- FormatDetector
\* Mutant of _detect_audio_format: OpusHead is looked for in half the window.
_detect_audio_format_half_window(data, tts) ==
    IF Len(data) < HEADER_LEN THEN "pcm"
    ELSE IF Take(data, HEADER_LEN) = OggS THEN "ogg"
    ELSE IF Take(data, HEADER_LEN) = EBML THEN "ogg"
    ELSE IF Contains(OpusHead, Take(data, OPUS_WINDOW \div 2)) THEN "ogg"
    ELSE IF ~tts THEN "ogg"
    ELSE "pcm"

\* Mutant of _detect_audio_format: no length test.
_detect_audio_format_any_length(data, tts) ==
    IF Take(data, HEADER_LEN) = OggS THEN "ogg"
    ELSE IF Take(data, HEADER_LEN) = EBML THEN "ogg"
    ELSE IF Contains(OpusHead, Take(data, OPUS_WINDOW)) THEN "ogg"
    ELSE IF ~tts THEN "ogg"
    ELSE "pcm"

_detect_audio_format(data, tts) ==
    IF Len(data) < HEADER_LEN THEN "pcm"
    ELSE IF Take(data, HEADER_LEN) = OggS THEN "ogg"
    ELSE IF Take(data, HEADER_LEN) = EBML THEN "ogg"
    ELSE IF Contains(OpusHead, Take(data, OPUS_WINDOW)) THEN "ogg"
    ELSE IF ~tts THEN "ogg"
    ELSE "pcm"

\* ------------------------------------------- StreamingContainerDecoder
\* What AudioSegment.from_file(...).raw_data can yield for a buffer: a failure,
\* or PCM of 16-bit samples (possibly none).
DecodeOutcomes ==
    {[ok |-> FALSE, pcm |-> <<>>], [ok |-> TRUE, pcm |-> <<>>],
     [ok |-> TRUE, pcm |-> <<0, 1>>]}

\* range(min_pages, min(self.ogg_pages_count + 1, max_pages + 1))
AttemptWindows(cnt) == MIN_PAGES .. (Min(cnt + 1, MAX_PAGES + 1) - 1)

\* Mutant of Cleared: the buffer is cleared and the counter kept.
ClearedBufferOnly == [buf |-> <<>>, cnt |-> ogg_pages_count]

\* self.ogg_buffer.clear(); self.ogg_pages_count = 0
Cleared == [buf |-> <<>>, cnt |-> 0]

\* Mutant of Overflow: the page cap is reached one page early.
OverflowOnePageEarly(cnt, buf) == cnt >= MAX_PAGES - 1 \/ Len(buf) > MAX_BUFFER

\* Mutant of Overflow: only the page cap resets the accumulator.
OverflowPagesOnly(cnt, buf) == cnt >= MAX_PAGES

\* if self.ogg_pages_count >= max_pages or len(self.ogg_buffer) > 50000
Overflow(cnt, buf) == cnt >= MAX_PAGES \/ Len(buf) > MAX_BUFFER

\* Mutant of EnoughPages: decoding is attempted one page early.
EnoughPagesFromTwo(cnt) == cnt >= MIN_PAGES - 1

\* if self.ogg_pages_count >= min_pages
EnoughPages(cnt) == cnt >= MIN_PAGES

\* One feed, from call to return: the accumulator after the call, the bytes
\* returned and whether the buffer-reset line was printed.  dec is the outcome
\* that ends the loop of attempts: the first success, or the last failure.
_process_ogg_stream(buf, cnt, page, dec) ==
    LET b == buf \o page
        c == cnt + 1
    IN  IF EnoughPages(c) /\ AttemptWindows(c) # {} /\ dec.ok
        THEN [buf |-> Cleared.buf, cnt |-> Cleared.cnt, ret |-> dec.pcm,
              ok |-> TRUE, reset |-> FALSE]
        ELSE IF EnoughPages(c) /\ Overflow(c, b)
        THEN [buf |-> Cleared.buf, cnt |-> Cleared.cnt, ret |-> <<>>,
              ok |-> FALSE, reset |-> TRUE]
        ELSE [buf |-> b, cnt |-> c, ret |-> <<>>, ok |-> FALSE, reset |-> FALSE]

\* ------------------------------------------------------------- frames
\* Payloads of the session: empty, short PCM, one OGG page.
Payloads == {<<>>, <<1, 2>>, OggS \o <<0>>}

AckFrames ==
    {[message_type |-> "SERVER_ACK", event |-> 0, payload_msg |-> p] : p \in Payloads}
FullFrames ==
    {[message_type |-> "SERVER_FULL_RESPONSE", event |-> e, payload_msg |-> <<>>] :
        e \in {EVENT_FLUSH, EVENT_SESSION_FINISHED, EVENT_SESSION_FAILED}}
ErrorFrame == [message_type |-> "SERVER_ERROR", event |-> 0, payload_msg |-> <<>>]
EmptyFrame == [message_type |-> "EMPTY", event |-> 0, payload_msg |-> <<>>]

IsTerminal(r) == r.event = EVENT_SESSION_FINISHED \/ r.event = EVENT_SESSION_FAILED

\* -------------------------------------------------------------- Init
Init ==
    /\ tts_configured = FALSE
    /\ ctl = "ctor_recording"
    /\ mic = "idle" /\ rcv = "idle" /\ ply = "idle"
    /\ is_running = TRUE /\ is_session_finished = FALSE
    /\ is_recording = FALSE /\ is_playing = FALSE
    /\ audio_queue = <<>>
    /\ ogg_buffer = <<>> /\ ogg_pages_count = 0
    /\ response = NoResponse /\ audio_format = "none" /\ audio_data = <<>>
    /\ player_audio_data = NoChunk
    /\ output_open = TRUE
    /\ next_id = 1 /\ written = <<>> /\ flushed = {}
    /\ late_write = FALSE
    /\ sent = 0 /\ dispatched = 0
    /\ error_seen = FALSE
    /\ stopped = FALSE /\ since_stop = NoneSince
    /\ calls = <<>> /\ cleanup_calls = 0
    /\ feed = "idle" /\ attempt_pages = 0
    /\ ogg_page = <<>> /\ pcm_data = <<>>
    /\ before = NoFeed /\ appended = 0
    /\ decoded = FALSE /\ loss_logged = FALSE
    /\ flush_obs = NoFlush

\* ------------------------------------------------- the stop signal
\* _keyboard_signal: the handler is installed before is_recording and
\* is_playing are first assigned, and runs between any two steps.
_keyboard_signal ==
    /\ ctl # "done"
    /\ is_recording' = FALSE
    /\ is_playing' = FALSE
    /\ is_running' = FALSE
    /\ stopped' = TRUE
    /\ since_stop' = IF is_recording \/ is_playing \/ is_running
                     THEN NoneSince
                     ELSE since_stop
    /\ UNCHANGED <<tts_configured, ctl, mic, rcv, ply, is_session_finished,
                   audio_queue, decoder, feeding, locals, player_audio_data, output_open,
                   next_id, written, flushed, flush_obs, late_write, sent,
                   dispatched, error_seen, hist_ctl>>

\* One coroutine runs at a time, from one await to the next.  receive_loop
\* awaits only in receive_server_response, so the other coroutines step only
\* while it is suspended there (or has not started, or has ended).
ReceiveSuspended == rcv \in {"idle", "await", "done"}

\* ------------------------------------------ DialogSession.__init__
CtlOnly ==
    UNCHANGED <<tts_configured, mic, rcv, ply, is_running, is_session_finished,
                is_recording, is_playing, audio_queue, decoder, feeding, locals,
                player_audio_data, output_open, next_id, written,
                flushed, flush_obs, late_write, sent, dispatched, error_seen, hist_stop>>

\* self.is_recording = True
CtorRecording ==
    /\ ctl = "ctor_recording"
    /\ is_recording' = TRUE
    /\ ctl' = "ctor_playing"
    /\ UNCHANGED <<tts_configured, tasks, ply, is_running, is_session_finished,
                   is_playing, audio_queue, decoder, feeding, locals, player_audio_data,
                   output_open, next_id, written, flushed, flush_obs, late_write,
                   sent, dispatched, error_seen, hist_stop, hist_ctl>>

\* self.is_playing = True
CtorPlaying ==
    /\ ctl = "ctor_playing"
    /\ is_playing' = TRUE
    /\ ctl' = "ctor_thread"
    /\ UNCHANGED <<tts_configured, tasks, ply, is_running, is_session_finished,
                   is_recording, audio_queue, decoder, feeding, locals, player_audio_data,
                   output_open, next_id, written, flushed, flush_obs, late_write,
                   sent, dispatched, error_seen, hist_stop, hist_ctl>>

\* self.player_thread.start()
CtorThread ==
    /\ ctl = "ctor_thread"
    /\ ply' = "check"
    /\ ctl' = "connect"
    /\ UNCHANGED <<tts_configured, tasks, flags, audio_queue, decoder, feeding, locals,
                   player_audio_data, output_open, next_id, written,
                   flushed, flush_obs, late_write, sent, dispatched, error_seen, hist_stop,
                   hist_ctl>>

\* ------------------------------------------- DialogSession.start
\* A transport call that raises goes to the except clause and from there
\* to the finally clause.
Raise(call) ==
    /\ calls' = Append(calls, call)
    /\ ctl' = "cleanup"

\* await self.client.connect(); the two create_task calls; the tasks first
\* run when start() awaits.
Connect ==
    /\ ctl = "connect"
    /\ \/ /\ ctl' = "run"
          /\ mic' = "open"
          /\ rcv' = "await"
          /\ UNCHANGED calls
       \/ /\ Raise("connect_raised")
          /\ UNCHANGED tasks
    /\ UNCHANGED <<tts_configured, ply, flags, audio_queue, decoder, feeding, locals,
                   player_audio_data, output_open, next_id, written,
                   flushed, flush_obs, late_write, sent, dispatched, error_seen, hist_stop,
                   cleanup_calls>>

\* while self.is_running: await asyncio.sleep(0.1)   (leaving the loop)
RunLoopExit ==
    /\ ctl = "run"
    /\ ~is_running
    /\ ctl' = "finish_session"
    /\ UNCHANGED hist_ctl
    /\ CtlOnly

\* await self.client.finish_session()
FinishSession ==
    /\ ctl = "finish_session"
    /\ \/ /\ calls' = Append(calls, "finish_session")
          /\ ctl' = "wait_finished"
       \/ Raise("finish_session_raised")
    /\ UNCHANGED cleanup_calls
    /\ CtlOnly

\* while not self.is_session_finished: await asyncio.sleep(0.1)   (leaving)
WaitFinishedExit ==
    /\ ctl = "wait_finished"
    /\ is_session_finished
    /\ calls' = Append(calls, "finished_observed")
    /\ ctl' = "finish_connection"
    /\ UNCHANGED cleanup_calls
    /\ CtlOnly

\* await self.client.finish_connection(); await asyncio.sleep(0.1)
FinishConnection ==
    /\ ctl = "finish_connection"
    /\ \/ /\ calls' = Append(calls, "finish_connection")
          /\ ctl' = "close"
       \/ Raise("finish_connection_raised")
    /\ UNCHANGED cleanup_calls
    /\ CtlOnly

\* await self.client.close()
Close ==
    /\ ctl = "close"
    /\ \/ /\ calls' = Append(calls, "close")
          /\ ctl' = "cleanup"
       \/ Raise("close_raised")
    /\ UNCHANGED cleanup_calls
    /\ CtlOnly

\* AudioDeviceManager.cleanup: both streams stopped and closed, PyAudio
\* terminated.
cleanup ==
    /\ ctl = "cleanup"
    /\ output_open' = FALSE
    /\ cleanup_calls' = cleanup_calls + 1
    /\ calls' = Append(calls, "cleanup")
    /\ ctl' = "done"
    /\ UNCHANGED <<tts_configured, tasks, ply, flags, audio_queue, decoder, feeding,
                   locals, player_audio_data, next_id, written,
                   flushed, flush_obs, late_write, sent, dispatched, error_seen, hist_stop>>

start ==
    /\ ReceiveSuspended
    /\ \/ Connect \/ RunLoopExit \/ FinishSession \/ WaitFinishedExit
       \/ FinishConnection \/ Close \/ cleanup

Construct == CtorRecording \/ CtorPlaying \/ CtorThread

\* ----------------------------------------- process_microphone_input
\* The event loop runs the tasks start() created until start() returns.
LoopRunning == ctl # "done"

\* A step of the capture task: the loop is running; nothing else changes.
MicOnly ==
    /\ LoopRunning
    /\ ReceiveSuspended
    /\ UNCHANGED <<tts_configured, ctl, rcv, ply, flags, audio_queue, decoder, feeding,
                locals, player_audio_data, output_open, next_id,
                written, flushed, flush_obs, late_write, dispatched, error_seen, stopped,
                hist_ctl>>

\* stream = self.audio_device.open_input_stream()
MicOpen ==
    /\ mic = "open"
    /\ mic' = "check"
    /\ UNCHANGED <<sent, since_stop>>
    /\ MicOnly

\* Mutant of MicIterate: the loop test ignores is_recording.
MicIterateNoPoll ==
    /\ mic = "check"
    /\ mic' = "sending"
    /\ UNCHANGED <<sent, since_stop>>
    /\ MicOnly

\* while self.is_recording: stream.read, save_pcm_to_wav and the start of
\* await self.client.task_request(audio_data); no await point lies between.
MicIterate ==
    /\ mic = "check"
    /\ mic' = IF is_recording THEN "sending" ELSE "done"
    /\ UNCHANGED <<sent, since_stop>>
    /\ MicOnly

\* task_request completes; await asyncio.sleep(0.01)
MicSent ==
    /\ mic = "sending"
    /\ sent' = (sent + 1) % 2
    /\ since_stop' = Since("sent")
    /\ mic' = "check"
    /\ MicOnly

\* stream.read or save_pcm_to_wav raises; except Exception: print
MicReadRaise ==
    /\ mic = "check"
    /\ is_recording
    /\ mic' = "backoff"
    /\ UNCHANGED <<sent, since_stop>>
    /\ MicOnly

\* task_request raises; except Exception: print
MicSendRaise ==
    /\ mic = "sending"
    /\ mic' = "backoff"
    /\ UNCHANGED <<sent, since_stop>>
    /\ MicOnly

\* await asyncio.sleep(0.1) of the except clause returns
MicBackoff ==
    /\ mic = "backoff"
    /\ mic' = "check"
    /\ UNCHANGED <<sent, since_stop>>
    /\ MicOnly

process_microphone_input ==
    MicOpen \/ MicIterate \/ MicSent \/ MicReadRaise \/ MicSendRaise \/ MicBackoff

\* ------------------------------ receive_loop / handle_server_response
\* A step of the receive task: the loop is running; nothing else changes.
RcvOnly ==
    /\ LoopRunning
    /\ UNCHANGED <<tts_configured, ctl, mic, ply, is_running, is_recording,
                is_playing, player_audio_data, output_open, written, late_write,
                sent, stopped, hist_ctl>>

\* Mutant of PutsAudio: chunks shorter than a header are not enqueued.
PutsAudioLong(fmt, data) ==
    /\ ~(fmt = "ogg" /\ Len(data) = 0)
    /\ Len(data) >= HEADER_LEN

\* if audio_format == "ogg": ... if len(audio_data) == 0: return
\* if len(audio_data) > 0: self.audio_queue.put(audio_data)
PutsAudio(fmt, data) ==
    /\ ~(fmt = "ogg" /\ Len(data) = 0)
    /\ Len(data) > 0

\* Mutant of DrainContinues: the drain stops one chunk early.
DrainContinuesShort(q) == Len(q) > 1

\* while not self.audio_queue.empty()
DrainContinues(q) == q # <<>>

\* response = await self.client.receive_server_response() and
\* handle_server_response(response) up to its first use of audio_queue.
Deliver(f) ==
    /\ rcv = "await"
    /\ dispatched' = dispatched + 1
    /\ since_stop' = Since("dispatched")
    /\ CASE f.message_type = "EMPTY" ->
              /\ rcv' = "await"
              /\ UNCHANGED <<decoder, feeding, locals, error_seen>>
         [] f.message_type = "SERVER_ACK" ->
              LET fmt == _detect_audio_format(f.payload_msg, tts_configured) IN
              /\ rcv' = "put"
              /\ response' = f
              /\ audio_format' = fmt
              /\ IF fmt = "ogg"
                 THEN \E dec \in DecodeOutcomes :
                        LET r == _process_ogg_stream(ogg_buffer, ogg_pages_count,
                                                     f.payload_msg, dec) IN
                        /\ ogg_buffer' = r.buf
                        /\ ogg_pages_count' = r.cnt
                        /\ audio_data' = r.ret
                        /\ ogg_page' = f.payload_msg
                        /\ pcm_data' = r.ret
                        /\ before' = [buf |-> ogg_buffer, cnt |-> ogg_pages_count]
                        /\ appended' = IF r.cnt = 0 THEN 0 ELSE appended + 1
                        /\ decoded' = r.ok
                        /\ loss_logged' = r.reset
                        /\ UNCHANGED <<feed, attempt_pages>>
                 ELSE /\ audio_data' = f.payload_msg
                      /\ UNCHANGED <<decoder, feeding>>
              /\ UNCHANGED error_seen
         [] f.message_type = "SERVER_FULL_RESPONSE" ->
              /\ rcv' = IF f.event = EVENT_FLUSH THEN "drain_check" ELSE "post"
              /\ response' = f
              /\ UNCHANGED <<decoder, feeding, audio_format, audio_data, error_seen>>
         [] f.message_type = "SERVER_ERROR" ->
              \* raise Exception; except Exception in receive_loop
              /\ rcv' = "done"
              /\ error_seen' = TRUE
              /\ UNCHANGED <<decoder, feeding, locals>>
    /\ flush_obs' = IF f.message_type = "SERVER_FULL_RESPONSE" /\ f.event = EVENT_FLUSH
                    THEN [flush_obs EXCEPT !.begun = FALSE, !.begin_held = 0]
                    ELSE flush_obs
    /\ UNCHANGED <<is_session_finished, audio_queue, next_id, flushed>>
    /\ RcvOnly

\* A frame arrives from the server.
ReceiveFrame ==
    /\ dispatched < MaxFrames
    /\ \E f \in AckFrames \cup FullFrames \cup {ErrorFrame, EmptyFrame} : Deliver(f)

\* The server answers finish_session with the session-finished event.
ReceiveFinished ==
    /\ calls # <<>> /\ calls[1] = "finish_session"
    /\ Deliver([message_type |-> "SERVER_FULL_RESPONSE",
                event |-> EVENT_SESSION_FINISHED, payload_msg |-> <<>>])

\* receive_server_response raises; except Exception in receive_loop
ReceiveRaise ==
    /\ rcv = "await"
    /\ rcv' = "done"
    /\ UNCHANGED <<is_session_finished, audio_queue, decoder, feeding, locals, next_id,
                   flushed, flush_obs, dispatched, error_seen, since_stop>>
    /\ RcvOnly

\* The rest of the SERVER_ACK branch, and the event test of receive_loop.
PutAudio ==
    /\ rcv = "put"
    /\ IF PutsAudio(audio_format, audio_data)
       THEN /\ audio_queue' = Append(audio_queue, Chunk(next_id, audio_data))
            /\ next_id' = next_id + 1
       ELSE UNCHANGED <<audio_queue, next_id>>
    /\ rcv' = "await"
    /\ response' = NoResponse /\ audio_format' = "none" /\ audio_data' = <<>>
    /\ UNCHANGED <<is_session_finished, decoder, feeding, flushed, flush_obs, dispatched, error_seen,
                   since_stop>>
    /\ RcvOnly

\* The id the player held at the first test of the drain loop (0: none).
HeldAtBegin ==
    IF flush_obs.begun
    THEN flush_obs.begin_held
    ELSE player_audio_data.id

\* event 450: the test of the drain loop.  When it fails the handling
\* returns; flush_obs then starts to observe the writes of chunks enqueued
\* before this moment, unless no chunk is left on the queue or in the
\* player's hand, so that there is none to observe.
DrainCheck ==
    /\ rcv = "drain_check"
    /\ IF DrainContinues(audio_queue)
       THEN /\ rcv' = "drain_get"
            /\ flush_obs' = [flush_obs EXCEPT !.begun = TRUE,
                                               !.begin_held = HeldAtBegin]
       ELSE /\ rcv' = "post"
            /\ flush_obs' = IF audio_queue = <<>> /\ player_audio_data = NoChunk
                            THEN NoFlush
                            ELSE [begun |-> FALSE, begin_held |-> 0,
                                  mark |-> next_id,
                                  held |-> HeldAtBegin, stale |-> {}]
    /\ UNCHANGED <<is_session_finished, audio_queue, decoder, feeding, locals, next_id,
                   flushed, dispatched, error_seen, since_stop>>
    /\ RcvOnly

\* self.audio_queue.get_nowait(); except queue.Empty: continue
DrainGet ==
    /\ rcv = "drain_get"
    /\ IF audio_queue # <<>>
       THEN /\ audio_queue' = Tail(audio_queue)
            /\ flushed' = flushed \cup {Head(audio_queue).id}
       ELSE UNCHANGED <<audio_queue, flushed>>
    /\ rcv' = "drain_check"
    /\ UNCHANGED flush_obs
    /\ UNCHANGED <<is_session_finished, decoder, feeding, locals, next_id,
                   dispatched, error_seen, since_stop>>
    /\ RcvOnly

\* handle_server_response has returned from a SERVER_FULL_RESPONSE:
\* if 'event' in response and (event == 152 or event == 153): ... break
AfterHandle ==
    /\ rcv = "post"
    /\ IF IsTerminal(response)
       THEN /\ is_session_finished' = TRUE
            /\ rcv' = "done"
       ELSE /\ rcv' = "await"
            /\ UNCHANGED is_session_finished
    /\ response' = NoResponse
    /\ UNCHANGED <<audio_queue, decoder, feeding, audio_format, audio_data, next_id,
                   flushed, flush_obs, dispatched, error_seen, since_stop>>
    /\ RcvOnly

handle_server_response == PutAudio \/ DrainCheck \/ DrainGet \/ AfterHandle

receive_loop == ReceiveFrame \/ ReceiveFinished \/ ReceiveRaise \/ handle_server_response

\* ------------------------------------------- _audio_player_thread
PlyOnly ==
    UNCHANGED <<tts_configured, ctl, mic, rcv, flags, decoder, feeding, locals,
                output_open, next_id, flushed, sent, dispatched,
                error_seen, stopped, hist_ctl>>

\* while self.is_playing
PlayerCheck ==
    /\ ply = "check"
    /\ ply' = IF is_playing THEN "get" ELSE "done"
    /\ UNCHANGED <<audio_queue, player_audio_data, written, late_write, since_stop>>
    /\ UNCHANGED flush_obs
    /\ PlyOnly

\* Mutant of PlayerGet: the chunk is read but left on the queue.
PlayerGetKeepsItem ==
    /\ ply = "get"
    /\ audio_queue # <<>>
    /\ player_audio_data' = Head(audio_queue)
    /\ ply' = "write"
    /\ UNCHANGED <<audio_queue, written, late_write, since_stop>>
    /\ UNCHANGED flush_obs
    /\ PlyOnly

\* audio_data = self.audio_queue.get(timeout=1.0)
PlayerGet ==
    /\ ply = "get"
    /\ audio_queue # <<>>
    /\ player_audio_data' = Head(audio_queue)
    /\ audio_queue' = Tail(audio_queue)
    /\ ply' = "write"
    /\ UNCHANGED <<written, late_write, since_stop>>
    /\ UNCHANGED flush_obs
    /\ PlyOnly

\* except queue.Empty: time.sleep(0.1)
PlayerEmpty ==
    /\ ply = "get"
    /\ audio_queue = <<>>
    /\ ply' = "check"
    /\ UNCHANGED <<audio_queue, player_audio_data, written, late_write, since_stop>>
    /\ UNCHANGED flush_obs
    /\ PlyOnly

\* self.output_stream.write(audio_data) returns
PlayerWrite ==
    /\ ply = "write"
    /\ output_open
    /\ written' = Append(written, player_audio_data.id)
    /\ player_audio_data' = NoChunk
    /\ ply' = "check"
    /\ since_stop' = Since("written")
    /\ UNCHANGED <<audio_queue, late_write>>
    /\ flush_obs' = IF player_audio_data.id < flush_obs.mark
                    THEN [flush_obs EXCEPT !.stale = @ \cup {player_audio_data.id}]
                    ELSE flush_obs
    /\ PlyOnly

\* Mutant of PlayerWriteRaise: a failed write ends the thread.
PlayerWriteRaiseEndsLoop ==
    /\ ply = "write"
    /\ late_write' = (late_write \/ ~output_open)
    /\ player_audio_data' = NoChunk
    /\ ply' = "done"
    /\ UNCHANGED <<audio_queue, written, since_stop>>
    /\ UNCHANGED flush_obs
    /\ PlyOnly

\* self.output_stream.write(audio_data) raises (always, on a closed
\* stream); except Exception: time.sleep(0.1)
PlayerWriteRaise ==
    /\ ply = "write"
    /\ late_write' = (late_write \/ ~output_open)
    /\ player_audio_data' = NoChunk
    /\ ply' = "check"
    /\ UNCHANGED <<audio_queue, written, since_stop>>
    /\ UNCHANGED flush_obs
    /\ PlyOnly

_audio_player_thread ==
    PlayerCheck \/ PlayerGet \/ PlayerEmpty \/ PlayerWrite \/ PlayerWriteRaise

\* ------------------------------------------------------------- Spec
Next ==
    \/ _keyboard_signal
    \/ Construct
    \/ start
    \/ process_microphone_input
    \/ receive_loop
    \/ _audio_player_thread

Spec == Init /\ [][Next]_vars

\* The event loop runs every ready coroutine, the operating system runs the
\* playback thread, and the server answers finish_session.  Nothing obliges
\* the user to press Ctrl+C, the server to send a frame, or a call to raise.
FairSpec ==
    /\ Spec
    /\ WF_vars(Construct)
    /\ WF_vars(start)
    /\ WF_vars(process_microphone_input)
    /\ WF_vars(handle_server_response)
    /\ WF_vars(ReceiveFinished)
    /\ WF_vars(_audio_player_thread)

\* ----------------------------------------------------- DispatchSpec
\* The dispatch of Ack frames alone, for either configuration and a wider
\* set of payloads: a session that is connected and running.
DispatchPayloads ==
    Payloads \cup {<<1, 2, 3, 4>>, EBML \o <<0>>, <<0>> \o OpusHead}

InitDispatch ==
    /\ tts_configured \in BOOLEAN
    /\ ctl = "run"
    /\ mic = "open" /\ rcv = "await" /\ ply = "check"
    /\ is_running = TRUE /\ is_session_finished = FALSE
    /\ is_recording = TRUE /\ is_playing = TRUE
    /\ audio_queue = <<>>
    /\ ogg_buffer = <<>> /\ ogg_pages_count = 0
    /\ response = NoResponse /\ audio_format = "none" /\ audio_data = <<>>
    /\ player_audio_data = NoChunk
    /\ output_open = TRUE
    /\ next_id = 1 /\ written = <<>> /\ flushed = {}
    /\ late_write = FALSE
    /\ sent = 0 /\ dispatched = 0
    /\ error_seen = FALSE
    /\ stopped = FALSE /\ since_stop = NoneSince
    /\ calls = <<>> /\ cleanup_calls = 0
    /\ feed = "idle" /\ attempt_pages = 0
    /\ ogg_page = <<>> /\ pcm_data = <<>>
    /\ before = NoFeed /\ appended = 0
    /\ decoded = FALSE /\ loss_logged = FALSE
    /\ flush_obs = NoFlush

ReceiveAck ==
    /\ dispatched < MaxFeeds
    /\ \E p \in DispatchPayloads :
          Deliver([message_type |-> "SERVER_ACK", event |-> 0, payload_msg |-> p])

NextDispatch == ReceiveAck \/ PutAudio

DispatchSpec == InitDispatch /\ [][NextDispatch]_vars

\* ----------------------------------------------------------- FeedSpec
\* _process_ogg_stream alone, one decode attempt at a time, for a decoder
\* whose every attempt may fail or succeed.
\* A page of half the buffer cap: two of them fill the cap exactly.
BigPage == [i \in 1..(MAX_BUFFER \div 2) |-> 0]
Pages == {OggS \o <<0>>, BigPage}

\* A step of _process_ogg_stream: the session is left alone.
FeedOnly ==
    UNCHANGED <<tts_configured, ctl, mic, rcv, ply, flags, audio_queue, locals,
                player_audio_data, output_open, next_id, written, flushed, flush_obs,
                late_write, sent, dispatched, error_seen, hist_stop, hist_ctl>>

\* self.ogg_buffer.extend(ogg_page); self.ogg_pages_count += 1;
\* if self.ogg_pages_count >= min_pages: for attempt_pages in range(...)
FeedCall ==
    /\ feed = "idle"
    /\ \E page \in Pages :
          /\ ogg_page' = page
          /\ ogg_buffer' = ogg_buffer \o page
    /\ ogg_pages_count' = ogg_pages_count + 1
    /\ before' = [buf |-> ogg_buffer, cnt |-> ogg_pages_count]
    /\ appended' = appended + 1
    /\ pcm_data' = <<>>
    /\ decoded' = FALSE
    /\ loss_logged' = FALSE
    /\ IF EnoughPages(ogg_pages_count')
       THEN IF AttemptWindows(ogg_pages_count') # {}
            THEN feed' = "attempt" /\ attempt_pages' = MIN_PAGES
            ELSE feed' = "exhausted" /\ attempt_pages' = 0
       ELSE feed' = "return" /\ attempt_pages' = 0
    /\ FeedOnly

\* One pass of the loop: AudioSegment.from_file on the whole buffer; on
\* success clear the accumulator and return the PCM, on failure continue.
FeedAttempt ==
    /\ feed = "attempt"
    /\ \E dec \in DecodeOutcomes :
          IF dec.ok
          THEN /\ ogg_buffer' = Cleared.buf
               /\ ogg_pages_count' = Cleared.cnt
               /\ appended' = 0
               /\ pcm_data' = dec.pcm
               /\ decoded' = TRUE
               /\ attempt_pages' = 0
               /\ feed' = "return"
          ELSE /\ IF attempt_pages + 1 \in AttemptWindows(ogg_pages_count)
                  THEN feed' = "attempt" /\ attempt_pages' = attempt_pages + 1
                  ELSE feed' = "exhausted" /\ attempt_pages' = 0
               /\ UNCHANGED <<decoder, appended, pcm_data, decoded>>
    /\ UNCHANGED <<ogg_page, before, loss_logged>>
    /\ FeedOnly

\* Every attempt failed: if self.ogg_pages_count >= max_pages or
\* len(self.ogg_buffer) > 50000: print, clear; then return b''
FeedExhausted ==
    /\ feed = "exhausted"
    /\ IF Overflow(ogg_pages_count, ogg_buffer)
       THEN /\ loss_logged' = TRUE
            /\ ogg_buffer' = Cleared.buf
            /\ ogg_pages_count' = Cleared.cnt
            /\ appended' = 0
       ELSE UNCHANGED <<loss_logged, decoder, appended>>
    /\ feed' = "return"
    /\ UNCHANGED <<attempt_pages, ogg_page, pcm_data, before, decoded>>
    /\ FeedOnly

\* return pcm_data  /  return b''
FeedReturn ==
    /\ feed = "return"
    /\ feed' = "idle"
    /\ UNCHANGED <<decoder, attempt_pages, ogg_page, pcm_data, before, appended,
                   decoded, loss_logged>>
    /\ FeedOnly

NextFeed == FeedCall \/ FeedAttempt \/ FeedExhausted \/ FeedReturn

FeedSpec == InitDispatch /\ [][NextFeed]_vars

\* --------------------------------------------------------- DetectSpec
\* _detect_audio_format alone, as handle_server_response calls it, for
\* either configuration.
Pad(n) == [i \in 1..n |-> 0]

DetectInputs ==
    {<<>>, <<79>>, Take(OggS, HEADER_LEN - 1), Take(EBML, HEADER_LEN - 1),
     OggS, EBML, <<1, 2, 3, 4>>, OggS \o <<0>>, EBML \o <<0>>,
     <<0>> \o OggS, <<0>> \o EBML, Take(OggS, HEADER_LEN - 1) \o <<0>>,
     Take(OpusHead, Len(OpusHead) - 1) \o Pad(2)}
    \cup {Pad(n) \o OpusHead : n \in 0..MaxPad}
    \cup {Pad(n) \o OpusHead \o Pad(2) : n \in {MaxPad - 3, MaxPad - 2, MaxPad - 1}}

\* audio_data = response['payload_msg'];
\* audio_format = self._detect_audio_format(audio_data)
DetectFormat ==
    /\ \E d \in DetectInputs :
          /\ audio_data' = d
          /\ audio_format' = _detect_audio_format(d, tts_configured)
    /\ UNCHANGED <<tts_configured, ctl, mic, rcv, ply, flags, audio_queue,
                   decoder, feeding, response, player_audio_data, output_open,
                   next_id, written, flushed, flush_obs, late_write, sent, dispatched,
                   error_seen, hist_stop, hist_ctl>>

DetectSpec == InitDispatch /\ [][DetectFormat]_vars

\* ------------------------------------------------------------ claims
Range(q) == {q[i] : i \in 1..Len(q)}

\* A run of start() is ending: a SERVER_ERROR frame or a transport exception
\* ended receive_loop, a terminal event arrived, or the stop signal was given.
RunEnding ==
    \/ error_seen
    \/ rcv = "done"
    \/ stopped
    \/ ctl = "cleanup"

\* C1: every run of start() that is ending (normal completion, a fatal error
\* mid-session, a stop signal) eventually invokes AudioDeviceManager.cleanup(),
\* and cleanup() is never invoked more than once.
C1_CleanupExactlyOnce ==
    /\ [](cleanup_calls <= 1)
    /\ [](RunEnding => <>(cleanup_calls = 1))

\* C2: once a SERVER_ERROR frame has been dispatched, no further microphone
\* chunk is sent to the transport and no further frame is dispatched.
C2_ErrorHaltsCaptureAndReceive ==
    [][error_seen => (sent' = sent /\ dispatched' = dispatched)]_vars

ShutdownOrder ==
    <<"finish_session", "finished_observed", "finish_connection", "close", "cleanup">>

\* C3: on every exit path of start() the shutdown steps run in order with none
\* skipped: both stop flags are cleared when finish_session is invoked, then
\* is_session_finished is observed, then finish_connection, close, cleanup.
C3_ShutdownOrder ==
    /\ cleanup_calls > 0 => calls = ShutdownOrder
    /\ (calls # <<>> /\ calls[1] = "finish_session") => (~is_recording /\ ~is_playing)

\* C4: the playback consumer never calls output_stream.write after cleanup()
\* has closed the output stream.
C4_NoWriteAfterCleanup == ~late_write

\* C5: when the device is released, no chunk put on audio_queue is still
\* waiting to be written: none is left on the queue or in the consumer's hand.
C5_NoAudioDropped ==
    cleanup_calls > 0 => (audio_queue = <<>> /\ player_audio_data = NoChunk)

\* C6: a terminal event (152 or 153) received while start() is in its running
\* loop, with no stop signal, leads to the device being released.
C6_TerminalEventCloses ==
    (ctl = "run" /\ is_session_finished /\ ~stopped) ~> (stopped \/ cleanup_calls = 1)

\* C7: the chunks written to the device are a subsequence of the chunks
\* enqueued (identities next_id hands out in order): every written chunk was
\* enqueued, order is kept, and no chunk is written twice.
C7_WrittenIsSubsequence ==
    \A i \in 1..Len(written) :
        /\ written[i] \in 1..(next_id - 1)
        /\ \A j \in 1..(i - 1) : written[j] < written[i]

\* Two chunks were written, and a chunk enqueued between them was not.
C7_Witness == Len(written) = 2 /\ written[2] > written[1] + 1

InDrain == rcv \in {"drain_check", "drain_get"}

\* C8: when handle_server_response has returned from an event-450 frame,
\* audio_queue is empty; and the drain loop always terminates.
C8_FlushEmptiesQueue ==
    /\ []((rcv = "post" /\ response.event = EVENT_FLUSH) => audio_queue = <<>>)
    /\ InDrain ~> (rcv = "post")

\* The 450 handler has returned after discarding two queued chunks.
C8_Witness ==
    rcv = "post" /\ response.event = EVENT_FLUSH /\ Cardinality(flushed) >= 2

AckCompletes == rcv = "put" /\ rcv' # "put"

Enqueues(data) == audio_queue' = Append(audio_queue, Chunk(next_id, data))

\* C10 as stated: every Ack payload, the empty one included, is either
\* classified Pcm and enqueued unchanged, or classified Container and then
\* the decoded PCM is enqueued or, with not enough data, nothing is.
C10_AckOutcome ==
    [][AckCompletes =>
        /\ Len(response.payload_msg) < HEADER_LEN => audio_format = "pcm"
        /\ \/ /\ audio_format = "pcm"
              /\ Enqueues(response.payload_msg)
           \/ /\ audio_format = "ogg" /\ audio_data # <<>>
              /\ Enqueues(audio_data)
           \/ /\ audio_format = "ogg" /\ audio_data = <<>>
              /\ audio_queue' = audio_queue]_vars

\* C10 amended: as stated for every non-empty payload; the empty payload is
\* classified Pcm and audio_queue is left unchanged.
C10_AckOutcomeNonEmpty ==
    [][AckCompletes =>
        /\ Len(response.payload_msg) < HEADER_LEN => audio_format = "pcm"
        /\ \/ /\ audio_format = "pcm" /\ response.payload_msg # <<>>
              /\ Enqueues(response.payload_msg)
           \/ /\ audio_format = "pcm" /\ response.payload_msg = <<>>
              /\ audio_queue' = audio_queue
           \/ /\ audio_format = "ogg" /\ audio_data # <<>>
              /\ Enqueues(audio_data)
           \/ /\ audio_format = "ogg" /\ audio_data = <<>>
              /\ audio_queue' = audio_queue]_vars

\* Decoded PCM has been enqueued, and the Ack of an empty payload, classified
\* Pcm, is completing.
C10_Witness ==
    /\ rcv = "put" /\ response.payload_msg = <<>> /\ audio_format = "pcm"
    /\ audio_queue = <<Chunk(1, <<0, 1>>)>>

\* C11: the decode primitive is invoked only when ogg_pages_count, counting
\* the page just appended, is at least 3; the first two feed calls after
\* construction or after a reset go straight to their return, with empty
\* bytes and no decode attempt.
C11_DecodeOnlyFromThreePages ==
    /\ [](feed = "attempt" => ogg_pages_count >= MIN_PAGES)
    /\ [][(feed = "idle" /\ feed' # "idle" /\ appended' < MIN_PAGES)
            => (feed' = "return" /\ pcm_data' = <<>>)]_vars

\* The third page since a reset: the second feed returned without a decode
\* and the first attempt is about to be made.
C11_Witness ==
    /\ feed = "attempt" /\ attempt_pages = MIN_PAGES
    /\ ogg_pages_count = MIN_PAGES /\ before.cnt = MIN_PAGES - 1

\* C12: a feed that returns decoded PCM leaves ogg_buffer empty and
\* ogg_pages_count 0; no step clears the buffer without zeroing the counter
\* or zeroes the counter without clearing the buffer; between feeds a zero
\* ogg_pages_count means an empty ogg_buffer and a non-zero one equals the
\* number of pages appended since the last reset.
C12_ResetTogether ==
    /\ [](feed \in {"return", "idle"} =>
            /\ pcm_data # <<>> => (ogg_buffer = <<>> /\ ogg_pages_count = 0)
            /\ ogg_pages_count = 0 => ogg_buffer = <<>>
            /\ ogg_pages_count # 0 => ogg_pages_count = appended)
    /\ [][/\ (ogg_buffer # <<>> /\ ogg_buffer' = <<>>) => ogg_pages_count' = 0
          /\ (ogg_pages_count # 0 /\ ogg_pages_count' = 0) => ogg_buffer' = <<>>]_vars

\* A feed of a fourth page returns decoded PCM.
C12_Witness ==
    /\ feed = "return" /\ pcm_data # <<>>
    /\ before.cnt = MIN_PAGES /\ before.buf # <<>>
    /\ ogg_buffer = <<>> /\ ogg_pages_count = 0

\* C13: a feed in which no decode attempt succeeds resets the accumulator
\* to empty when it appended the 8th page since the last reset, or when it
\* appended a third or later page and the buffer exceeds 50,000 bytes, and
\* prints the buffer-reset line; ogg_pages_count is at most 7 whenever a
\* feed returns.
C13_OverflowResets ==
    (feed \in {"return", "idle"}) =>
        LET c == before.cnt + 1
            b == before.buf \o ogg_page
        IN  /\ (~decoded /\ (c >= MAX_PAGES \/ (c >= MIN_PAGES /\ Len(b) > MAX_BUFFER)))
                  => (ogg_buffer = <<>> /\ ogg_pages_count = 0 /\ loss_logged)
            /\ ogg_pages_count <= MAX_PAGES - 1

\* The 8th page since the last reset, every attempt failed.
C13_Witness ==
    /\ feed = "return" /\ ~decoded /\ loss_logged
    /\ before.cnt = MAX_PAGES - 1 /\ Len(before.buf \o ogg_page) <= MAX_BUFFER
    /\ ogg_buffer = <<>> /\ ogg_pages_count = 0

\* C17: a feed in which no decode attempt succeeds, and which leaves fewer
\* than 8 pages and at most 50,000 bytes, returns empty bytes and leaves
\* the accumulator equal to the previous buffer followed by the new page,
\* with the page count one higher; a failed decode attempt changes neither
\* ogg_buffer nor ogg_pages_count.
C17_FailedFeedAccumulates ==
    /\ [](feed = "return" =>
            LET c == before.cnt + 1
                b == before.buf \o ogg_page
            IN  (~decoded /\ c < MAX_PAGES /\ Len(b) <= MAX_BUFFER)
                  => (pcm_data = <<>> /\ ogg_buffer = b /\ ogg_pages_count = c))
    /\ [][(feed = "attempt" /\ ~decoded') => UNCHANGED <<ogg_buffer, ogg_pages_count>>]_vars

\* A fifth page since the last reset: three attempts failed, nothing was reset.
C17_Witness ==
    /\ feed = "return" /\ ~decoded /\ ~loss_logged
    /\ before.cnt = MIN_PAGES + 1 /\ ogg_pages_count = MIN_PAGES + 2
    /\ ogg_buffer = before.buf \o ogg_page

\* The first four bytes of d are the magic m.
HasMagic(d, m) == Len(d) >= Len(m) /\ \A i \in 1..Len(m) : d[i] = m[i]

\* The marker OpusHead lies wholly within the first 64 bytes of d.
OpusHeadWithinWindow(d) ==
    \E i \in 1..(OPUS_WINDOW - Len(OpusHead) + 1) :
        /\ i + Len(OpusHead) - 1 <= Len(d)
        /\ \A k \in 1..Len(OpusHead) : d[i + k - 1] = OpusHead[k]

CarriesMarker(d) ==
    HasMagic(d, OggS) \/ HasMagic(d, EBML) \/ OpusHeadWithinWindow(d)

\* C14: detect returns "ogg" for every input that starts with 'OggS', that
\* starts with 1A 45 DF A3, or that has 'OpusHead' wholly within its first
\* 64 bytes, whether or not a tts reply is configured.
C14_MarkersAreContainer ==
    (audio_format # "none" /\ CarriesMarker(audio_data)) => audio_format = "ogg"

\* OpusHead in the last place of the window, with a tts reply configured.
C14_Witness ==
    /\ tts_configured /\ audio_format = "ogg"
    /\ audio_data = Pad(OPUS_WINDOW - Len(OpusHead)) \o OpusHead

\* C15: for an input of 4 or more bytes that carries none of the three
\* markers detect returns "pcm" if and only if a tts reply is configured;
\* for an input shorter than 4 bytes it returns "pcm" in either configuration.
C15_UnmarkedFollowsConfiguration ==
    (audio_format # "none" /\ ~CarriesMarker(audio_data)) =>
        IF Len(audio_data) >= HEADER_LEN
        THEN (audio_format = "pcm") <=> tts_configured
        ELSE audio_format = "pcm"

\* OpusHead straddling the end of the window, no tts reply configured.
C15_Witness ==
    /\ ~tts_configured /\ audio_format = "ogg"
    /\ audio_data = Pad(OPUS_WINDOW - Len(OpusHead) + 1) \o OpusHead

\* C16: a failed output_stream.write, microphone read or task_request
\* changes no session flag, leaves start() where it is and leaves the
\* queued chunks in place; the loop it happened in goes back to its test
\* and runs another iteration if its flag is still set; the chunks written
\* afterwards are still written in the order they were enqueued.
C16_FailuresAreTransient ==
    /\ [][/\ (ply = "write" /\ ply' # "write" /\ written' = written)
                => /\ ply' = "check"
                   /\ UNCHANGED <<flags, ctl, audio_queue>>
          /\ (mic # "backoff" /\ mic' = "backoff") => UNCHANGED <<flags, ctl>>
          /\ (mic = "backoff" /\ mic' # "backoff") => mic' = "check"
          /\ (ply = "check" /\ ply' # "check" /\ is_playing) => ply' = "get"
          /\ (mic = "check" /\ mic' # "check" /\ is_recording)
                => mic' \in {"sending", "backoff"}]_vars
    /\ [](\A i, j \in 1..Len(written) : i < j => written[i] < written[j])

\* The write of chunk 1 failed and chunk 2 was written after it; the capture
\* loop is backing off after a failure of its own.
C16_Witness ==
    /\ written = <<2>> /\ flushed = {} /\ player_audio_data = NoChunk
    /\ audio_queue = <<>>
    /\ mic = "backoff" /\ is_recording /\ is_playing

\* C18: once _keyboard_signal has run, is_recording, is_playing and
\* is_running are false in every later state.
C18_StopIsPermanent ==
    stopped => (~is_recording /\ ~is_playing /\ ~is_running)

\* C19: once start() has invoked client.finish_session(), no task_request
\* call of the capture loop begins and none completes.
C19_NoSendAfterFinishSession ==
    [][(\E c \in Range(calls) : c \in {"finish_session", "finish_session_raised"})
         => /\ sent' = sent
            /\ ~(mic # "sending" /\ mic' = "sending")]_vars

\* C20: of the chunks enqueued before a 450 event, the only one
\* written after the handling of the event returns is the chunk the
\* playback thread had already dequeued when the drain began.
C20_OnlyTheChunkHeldAtDrainStart ==
    flush_obs.stale \subseteq {flush_obs.held}

====
